---- MODULE Spec2Model ----
(***************************************************************************)
(* Model of src/main.py: the cached loader load_all_data (file and sheet   *)
(* discovery with NFC-normalised containment matching, per-site parsing)   *)
(* and the page script that consumes its two collections.                  *)
(*                                                                         *)
(* Text is modelled as sequences of Unicode code points, so that           *)
(* unicodedata.normalize('NFC', .) is a real conversion: the Hangul        *)
(* composition algorithm of the Unicode standard.                          *)
(***************************************************************************)
EXTENDS Integers, Sequences, FiniteSets, TLC

(***************************************************************************)
(* Bounds of the model.                                                    *)
(***************************************************************************)
MaxFiles == 3
MaxSheets == 3
MaxRenders == 2
MaxAffix == 1

(***************************************************************************)
(* unicodedata.normalize('NFC', text) on Hangul and ASCII text.            *)
(***************************************************************************)
SBase == 44032
LBase == 4352
VBase == 4449
TBase == 4519
LCount == 19
VCount == 21
TCount == 28
NCount == 588
SCount == 11172

IsSyllable(c) == c >= SBase /\ c < SBase + SCount
IsL(c) == c >= LBase /\ c < LBase + LCount
IsV(c) == c >= VBase /\ c < VBase + VCount
IsT(c) == c > TBase /\ c < TBase + TCount
IsLV(c) == IsSyllable(c) /\ ((c - SBase) % TCount = 0)

\* canonical decomposition of one code point
DecomposeChar(c) ==
    IF IsSyllable(c)
    THEN LET SIndex == c - SBase
             l == LBase + (SIndex \div NCount)
             v == VBase + ((SIndex % NCount) \div TCount)
             t == TBase + (SIndex % TCount)
         IN IF t = TBase THEN <<l, v>> ELSE <<l, v, t>>
    ELSE <<c>>

RECURSIVE Decompose(_)
Decompose(s) == IF s = <<>> THEN <<>> ELSE DecomposeChar(Head(s)) \o Decompose(Tail(s))

\* canonical composition, left to right, `acc` is the text composed so far
RECURSIVE ComposeFrom(_, _)
ComposeFrom(acc, s) ==
    IF s = <<>> THEN acc
    ELSE LET c == Head(s)
             n == Len(acc)
             last == IF n = 0 THEN 0 ELSE acc[n]
         IN IF n > 0 /\ IsL(last) /\ IsV(c)
            THEN ComposeFrom([acc EXCEPT ![n] =
                     SBase + ((last - LBase) * VCount + (c - VBase)) * TCount], Tail(s))
            ELSE IF n > 0 /\ IsLV(last) /\ IsT(c)
            THEN ComposeFrom([acc EXCEPT ![n] = last + (c - TBase)], Tail(s))
            ELSE ComposeFrom(Append(acc, c), Tail(s))

NFC(s) == ComposeFrom(<<>>, Decompose(s))
NFD(s) == Decompose(s)

normalize_text_identity(text) == text
normalize_text(text) == NFC(text)

\* Python's `sub in s` on str
Contains(sub, s) ==
    \E i \in 0..(Len(s) - Len(sub)) : SubSeq(s, i + 1, i + Len(sub)) = sub

\* pathlib's PurePath.suffix of a file name
Dot == 46
LastDot(name) ==
    IF \E i \in 1..Len(name) : name[i] = Dot
    THEN CHOOSE i \in 1..Len(name) :
            name[i] = Dot /\ \A j \in (i + 1)..Len(name) : name[j] # Dot
    ELSE 0
Suffix(name) ==
    LET i == LastDot(name)
    IN IF i > 1 /\ i < Len(name) THEN SubSeq(name, i, Len(name)) ELSE <<>>


(***************************************************************************)
(* Static configuration: the `schools` dict of load_all_data.  Keys are    *)
(* named by romanised identifiers; `text` is the literal of the source (in *)
(* composed form, as the source file stores it).                           *)
(***************************************************************************)
Schools == <<"Songdo", "Haneul", "Ara", "Dongsan">>
SchoolKeys == {Schools[i] : i \in 1..Len(Schools)}
schools ==
    [k \in SchoolKeys |->
        CASE k = "Songdo"  -> [text |-> <<49569, 46020, 44256>>, ec_target |-> 1]
          [] k = "Haneul"  -> [text |-> <<54616, 45720, 44256>>, ec_target |-> 2]
          [] k = "Ara"     -> [text |-> <<50500, 46972, 44256>>, ec_target |-> 4]
          [] k = "Dongsan" -> [text |-> <<46041, 49328, 44256>>, ec_target |-> 8]]
SchoolText(k) == schools[k].text

\* the sidebar's first option
All == "All"

(***************************************************************************)
(* The input space: directory entries and workbook sheets.  `bad` names    *)
(* the parsing step at which the input makes pandas raise ("none": it      *)
(* parses).  Names are code point sequences, in composed or decomposed     *)
(* form.                                                                   *)
(***************************************************************************)
ExtCsv  == <<46, 99, 115, 118>>
ExtXlsx == <<46, 120, 108, 115, 120>>
ExtXls  == <<46, 120, 108, 115>>
ExtTxt  == <<46, 116, 120, 116>>

FileUniverse ==
    { [name |-> SchoolText("Songdo") \o ExtCsv,  bad |-> "none", ec |-> <<1, 3, 2>>],
      [name |-> NFD(<<49, 95>> \o SchoolText("Songdo") \o <<95, 50>> \o ExtCsv),
                                                 bad |-> "none", ec |-> <<5>>],
      [name |-> SchoolText("Songdo") \o <<95, 98>> \o ExtCsv,
                                                 bad |-> "strip", ec |-> <<7, 7>>],
      [name |-> NFD(SchoolText("Haneul") \o ExtCsv), bad |-> "time", ec |-> <<2, 2>>],
      [name |-> SchoolText("Ara") \o ExtCsv,     bad |-> "read", ec |-> <<>>],
      [name |-> SchoolText("Dongsan") \o ExtCsv, bad |-> "none", ec |-> <<8, 6, 9, 9>>],
      [name |-> SchoolText("Songdo") \o ExtTxt,  bad |-> "none", ec |-> <<4>>],
      [name |-> <<103>> \o ExtXlsx,              bad |-> "none", ec |-> <<>>],
      [name |-> <<104>> \o ExtXls,               bad |-> "open", ec |-> <<>>] }

SheetUniverse ==
    { [name |-> SchoolText("Songdo"),       bad |-> "none",  rows |-> 10],
      [name |-> NFD(SchoolText("Haneul")),  bad |-> "none",  rows |-> 12],
      [name |-> SchoolText("Ara"),          bad |-> "strip", rows |-> 9],
      [name |-> SchoolText("Dongsan"),      bad |-> "none",  rows |-> 11],
      [name |-> NFD(<<111, 108, 100, 95>> \o SchoolText("Songdo")),
                                            bad |-> "none",  rows |-> 3],
      [name |-> SchoolText("Dongsan") \o <<95, 120>>, bad |-> "read", rows |-> 0] }

\* sequences without repetition over S, of length at most n
InjSeqs(S, n) ==
    UNION { { q \in [1..m -> S] : \A i, j \in 1..m : i # j => q[i] # q[j] } : m \in 0..n }

IsWorkbookName(name) == Suffix(name) \in {ExtXlsx, ExtXls}
HasWorkbook(d) == \E i \in 1..Len(d) : IsWorkbookName(d[i].name)

TheWorkbook == CHOOSE f \in FileUniverse : f.name = <<103>> \o ExtXlsx
DefaultSheets ==
    << CHOOSE s \in SheetUniverse : s.name = SchoolText("Songdo"),
       CHOOSE s \in SheetUniverse : s.name = NFD(SchoolText("Haneul")),
       CHOOSE s \in SheetUniverse : s.name = SchoolText("Dongsan") >>
SimpleDirs ==
    { <<TheWorkbook>>,
      << CHOOSE f \in FileUniverse : f.name = SchoolText("Dongsan") \o ExtCsv, TheWorkbook >> }

(***************************************************************************)
(* State.                                                                  *)
(***************************************************************************)
VARIABLES
    dirExists,       \* Path("data").exists()
    dir,             \* Path("data").iterdir(), in enumeration order
    sheets,          \* sheets of the workbook file, in workbook order
    pc,              \* position of the script run
    renders,         \* number of script runs started in this session
    cache,           \* st.cache_data's entry for load_all_data()
    loadCount,       \* number of executions of the body of load_all_data
    iterdir_calls,   \* number of directory enumerations performed
    env_data,        \* local of load_all_data
    growth_data,     \* local of load_all_data
    fi, si, shi,     \* loop positions: file, school, sheet
    df,              \* local df / df_sheet under construction
    warnings,        \* st.warning calls made by load_all_data
    SCHOOL_INFO, ENV_DICT, GROWTH_DICT,   \* module-level results of the load call
    first_result,    \* what the first script run of the session observed
    fatal,           \* st.error + st.stop of the empty-data check
    selected_school, \* value of the sidebar selectbox
    cond_list,       \* tab 1: per-school sample counts
    raised,          \* unhandled exception that ended the script run
    mKeyword, mCandidate, mResult  \* operands and result of one match test

vars == << dirExists, dir, sheets, pc, renders, cache, loadCount, iterdir_calls,
           env_data, growth_data, fi, si, shi, df, warnings, SCHOOL_INFO, ENV_DICT,
           GROWTH_DICT, first_result, fatal, selected_school, cond_list, raised,
           mKeyword, mCandidate, mResult >>

envVars == << dirExists, dir, sheets >>
matchVars == << mKeyword, mCandidate, mResult >>

NoTable == [src |-> 0]
EmptyDict == [k \in SchoolKeys |-> NoTable]
Keys(d) == {k \in SchoolKeys : d[k] # NoTable}
NoCache == [filled |-> FALSE]
NoResult == [seen |-> FALSE]
NoOperand == [school |-> "none", form |-> "NFC", text |-> << >>]


(***************************************************************************)
(* Conditions and assignments of load_all_data.                            *)
(***************************************************************************)
\* line 39: if not base_path.exists()
DirMissing_never == FALSE
DirMissing == ~dirExists

\* line 46: school in norm_name and file_path.suffix == '.csv'
KeywordIn(keyword, name) == Contains(keyword, normalize_text(name))
CsvMatches(school, name) == KeywordIn(SchoolText(school), name) /\ Suffix(name) = ExtCsv

\* line 64: school in norm_sheet
SheetMatches_exact(school, sheet_name) == SchoolText(school) = normalize_text(sheet_name)
SheetMatches(school, sheet_name) == KeywordIn(SchoolText(school), sheet_name)

\* line 51: env_data[school] = df
StoreEnv_keepFirst(env, school, table) ==
    IF env[school] = NoTable THEN [env EXCEPT ![school] = table] ELSE env
StoreEnv(env, school, table) == [env EXCEPT ![school] = table]

\* line 67: growth_data[school] = df_sheet
StoreGrowth(growth, school, table) == [growth EXCEPT ![school] = table]

\* lines 52-53: the except clause leaves env_data as it is
CsvExcept_storePartial(env, school, partial) ==
    IF partial = NoTable THEN env ELSE [env EXCEPT ![school] = partial]
CsvExcept(env, school, partial) == env

\* lines 68-69: the except clause leaves growth_data as it is
ExcelExcept(growth, school, partial) == growth

\* line 56: the workbook files of the directory, in enumeration order
xlsx_files == SelectSeq(dir, LAMBDA f : IsWorkbookName(f.name))

\* st.cache_data: a stored entry answers the call
CacheHit_never == FALSE
CacheHit == cache.filled

\* line 78: if not ENV_DICT or not GROWTH_DICT
IsDataMissing_envOnly == Keys(ENV_DICT) = {}
IsDataMissing == Keys(ENV_DICT) = {} \/ Keys(GROWTH_DICT) = {}

pageVars == << SCHOOL_INFO, ENV_DICT, GROWTH_DICT, first_result, fatal, selected_school, cond_list >>
loadLocals == << env_data, growth_data, fi, si, shi, df, warnings >>

(***************************************************************************)
(* Script run: line 75, the cached call of load_all_data.                  *)
(***************************************************************************)
\* the result of the load reaches the module-level names (line 75)
Deliver(env, growth) ==
    /\ SCHOOL_INFO' = schools
    /\ ENV_DICT' = env
    /\ GROWTH_DICT' = growth
    /\ first_result' = IF first_result.seen THEN first_result
                       ELSE [seen |-> TRUE, env |-> env, growth |-> growth]
    /\ pc' = "check"

\* a script run starts: the first one, or a rerun of the session
RunScript ==
    /\ pc \in {"start", "halted", "done", "crashed"}
    /\ renders < MaxRenders
    /\ renders' = renders + 1
    /\ pc' = "call_load"
    /\ SCHOOL_INFO' = << >>
    /\ ENV_DICT' = EmptyDict
    /\ GROWTH_DICT' = EmptyDict
    /\ fatal' = FALSE
    /\ raised' = "none"
    /\ cond_list' = << >>
    /\ UNCHANGED << envVars, matchVars, cache, loadCount, iterdir_calls, loadLocals,
                    first_result, selected_school >>

CallLoad ==
    /\ pc = "call_load"
    /\ IF CacheHit
       THEN /\ Deliver(cache.env, cache.growth)
            /\ UNCHANGED << loadCount, loadLocals >>
       ELSE /\ loadCount' = loadCount + 1
            /\ env_data' = EmptyDict
            /\ growth_data' = EmptyDict
            /\ warnings' = {}
            /\ df' = NoTable
            /\ pc' = "exists_check"
            /\ UNCHANGED << fi, si, shi, SCHOOL_INFO, ENV_DICT, GROWTH_DICT, first_result >>
    /\ UNCHANGED << envVars, matchVars, renders, cache, iterdir_calls, fatal,
                    selected_school, cond_list, raised >>

\* lines 39-40
ExistsCheck ==
    /\ pc = "exists_check"
    /\ pc' = IF DirMissing THEN "return" ELSE "csv_iterdir"
    /\ UNCHANGED << envVars, matchVars, renders, cache, loadCount, iterdir_calls,
                    loadLocals, pageVars, raised >>

\* line 43: base_path.iterdir(); on a missing directory it raises
CsvIterdir ==
    /\ pc = "csv_iterdir"
    /\ IF dirExists
       THEN /\ iterdir_calls' = iterdir_calls + 1
            /\ fi' = 1
            /\ si' = 1
            /\ pc' = IF dir = << >> THEN "xlsx_list" ELSE "csv_match"
            /\ raised' = raised
       ELSE /\ raised' = "FileNotFoundError"
            /\ pc' = "crashed"
            /\ UNCHANGED << iterdir_calls, fi, si >>
    /\ UNCHANGED << envVars, matchVars, renders, cache, loadCount,
                    env_data, growth_data, shi, df, warnings, pageVars >>

\* the two nested for loops of lines 43 and 45 move on
CsvAdvance ==
    /\ df' = NoTable
    /\ IF si < Len(Schools)
       THEN /\ si' = si + 1
            /\ fi' = fi
            /\ pc' = "csv_match"
       ELSE IF fi < Len(dir)
       THEN /\ si' = 1
            /\ fi' = fi + 1
            /\ pc' = "csv_match"
       ELSE /\ UNCHANGED << fi, si >>
            /\ pc' = "xlsx_list"

\* lines 44-46
CsvMatch ==
    /\ pc = "csv_match"
    /\ IF CsvMatches(Schools[si], dir[fi].name)
       THEN /\ pc' = "csv_read"
            /\ UNCHANGED << fi, si, df >>
       ELSE CsvAdvance
    /\ UNCHANGED << envVars, matchVars, renders, cache, loadCount, iterdir_calls,
                    env_data, growth_data, shi, warnings, pageVars, raised >>

\* lines 52-53, entered from the step of the try block that raised
CsvFail ==
    /\ warnings' = warnings \cup {<<"csv", fi>>}
    /\ env_data' = CsvExcept(env_data, Schools[si], df)
    /\ CsvAdvance

\* line 48: df = pd.read_csv(file_path)
CsvRead ==
    /\ pc = "csv_read"
    /\ IF dir[fi].bad = "read"
       THEN CsvFail
       ELSE /\ df' = [src |-> fi, stripped |-> FALSE, time_parsed |-> FALSE,
                      data |-> [ec |-> dir[fi].ec]]
            /\ pc' = "csv_strip"
            /\ UNCHANGED << fi, si, warnings, env_data >>
    /\ UNCHANGED << envVars, matchVars, renders, cache, loadCount, iterdir_calls,
                    growth_data, shi, pageVars, raised >>

\* line 49: df.columns = df.columns.str.strip()
CsvStrip ==
    /\ pc = "csv_strip"
    /\ IF dir[fi].bad = "strip"
       THEN CsvFail
       ELSE /\ df' = [df EXCEPT !.stripped = TRUE]
            /\ pc' = "csv_time"
            /\ UNCHANGED << fi, si, warnings, env_data >>
    /\ UNCHANGED << envVars, matchVars, renders, cache, loadCount, iterdir_calls,
                    growth_data, shi, pageVars, raised >>

\* line 50: df['time'] = pd.to_datetime(df['time'])
CsvTime ==
    /\ pc = "csv_time"
    /\ IF dir[fi].bad = "time"
       THEN CsvFail
       ELSE /\ df' = [df EXCEPT !.time_parsed = TRUE]
            /\ pc' = "csv_store"
            /\ UNCHANGED << fi, si, warnings, env_data >>
    /\ UNCHANGED << envVars, matchVars, renders, cache, loadCount, iterdir_calls,
                    growth_data, shi, pageVars, raised >>

\* line 51
CsvStore ==
    /\ pc = "csv_store"
    /\ env_data' = StoreEnv(env_data, Schools[si], df)
    /\ CsvAdvance
    /\ UNCHANGED << envVars, matchVars, renders, cache, loadCount, iterdir_calls,
                    growth_data, shi, warnings, pageVars, raised >>


\* lines 56-58: xlsx_files, target_xlsx = xlsx_files[0]
XlsxList ==
    /\ pc = "xlsx_list"
    /\ iterdir_calls' = iterdir_calls + 1
    /\ pc' = IF xlsx_files = << >> THEN "return" ELSE "xls_open"
    /\ UNCHANGED << envVars, matchVars, renders, cache, loadCount, loadLocals,
                    pageVars, raised >>

target_xlsx == xlsx_files[1]

\* lines 68-69: one except clause around the whole sheet loop ends the loop
ExcelFail ==
    /\ warnings' = warnings \cup {<<"excel", shi>>}
    /\ growth_data' = ExcelExcept(growth_data, Schools[si], df)
    /\ df' = NoTable
    /\ pc' = "return"

\* line 60: xls = pd.ExcelFile(target_xlsx)
XlsOpen ==
    /\ pc = "xls_open"
    /\ IF target_xlsx.bad = "open"
       THEN /\ warnings' = warnings \cup {<<"excel", 0>>}
            /\ pc' = "return"
            /\ UNCHANGED << shi, si >>
       ELSE /\ shi' = 1
            /\ si' = 1
            /\ pc' = IF sheets = << >> THEN "return" ELSE "sheet_match"
            /\ UNCHANGED warnings
    /\ UNCHANGED << envVars, matchVars, renders, cache, loadCount, iterdir_calls,
                    env_data, growth_data, fi, df, pageVars, raised >>

\* the two nested for loops of lines 61 and 63 move on
SheetAdvance ==
    /\ df' = NoTable
    /\ IF si < Len(Schools)
       THEN /\ si' = si + 1
            /\ shi' = shi
            /\ pc' = "sheet_match"
       ELSE IF shi < Len(sheets)
       THEN /\ si' = 1
            /\ shi' = shi + 1
            /\ pc' = "sheet_match"
       ELSE /\ UNCHANGED << shi, si >>
            /\ pc' = "return"

\* lines 62-64
SheetMatch ==
    /\ pc = "sheet_match"
    /\ IF SheetMatches(Schools[si], sheets[shi].name)
       THEN /\ pc' = "sheet_read"
            /\ UNCHANGED << shi, si, df >>
       ELSE SheetAdvance
    /\ UNCHANGED << envVars, matchVars, renders, cache, loadCount, iterdir_calls,
                    env_data, growth_data, fi, warnings, pageVars, raised >>

\* line 65: df_sheet = pd.read_excel(target_xlsx, sheet_name=sheet_name)
SheetRead ==
    /\ pc = "sheet_read"
    /\ IF sheets[shi].bad = "read"
       THEN /\ ExcelFail
            /\ UNCHANGED << shi, si >>
       ELSE /\ df' = [src |-> shi, stripped |-> FALSE, rows |-> sheets[shi].rows]
            /\ pc' = "sheet_strip"
            /\ UNCHANGED << shi, si, warnings, growth_data >>
    /\ UNCHANGED << envVars, matchVars, renders, cache, loadCount, iterdir_calls,
                    env_data, fi, pageVars, raised >>

\* line 66: df_sheet.columns = df_sheet.columns.str.strip()
SheetStrip ==
    /\ pc = "sheet_strip"
    /\ IF sheets[shi].bad = "strip"
       THEN /\ ExcelFail
            /\ UNCHANGED << shi, si >>
       ELSE /\ df' = [df EXCEPT !.stripped = TRUE]
            /\ pc' = "sheet_store"
            /\ UNCHANGED << shi, si, warnings, growth_data >>
    /\ UNCHANGED << envVars, matchVars, renders, cache, loadCount, iterdir_calls,
                    env_data, fi, pageVars, raised >>

\* line 67
SheetStore ==
    /\ pc = "sheet_store"
    /\ growth_data' = StoreGrowth(growth_data, Schools[si], df)
    /\ SheetAdvance
    /\ UNCHANGED << envVars, matchVars, renders, cache, loadCount, iterdir_calls,
                    env_data, fi, warnings, pageVars, raised >>

\* lines 40 and 71: return schools, env_data, growth_data; st.cache_data stores
\* the result, line 75 binds it
Return ==
    /\ pc = "return"
    /\ cache' = [filled |-> TRUE, env |-> env_data, growth |-> growth_data]
    /\ Deliver(env_data, growth_data)
    /\ UNCHANGED << envVars, matchVars, renders, loadCount, iterdir_calls, loadLocals,
                    fatal, selected_school, cond_list, raised >>

(***************************************************************************)
(* The page script after the load.                                         *)
(***************************************************************************)
\* lines 78-80
EmptyCheck ==
    /\ pc = "check"
    /\ IF IsDataMissing
       THEN /\ fatal' = TRUE
            /\ pc' = "halted"
       ELSE /\ fatal' = FALSE
            /\ pc' = "sidebar"
    /\ UNCHANGED << envVars, matchVars, renders, cache, loadCount, iterdir_calls,
                    loadLocals, SCHOOL_INFO, ENV_DICT, GROWTH_DICT, first_result, selected_school,
                    cond_list, raised >>

\* line 84: the "all" option followed by list(SCHOOL_INFO.keys())
school_options == <<All>> \o SelectSeq(Schools, LAMBDA k : k \in DOMAIN SCHOOL_INFO)

\* lines 84-85: the selectbox yields its first option on the first run of the
\* session and the user's choice on a rerun
Sidebar ==
    /\ pc = "sidebar"
    /\ \E sel \in {school_options[i] : i \in 1..Len(school_options)} :
          /\ renders = 1 => sel = school_options[1]
          /\ selected_school' = sel
    /\ pc' = "tab1"
    /\ UNCHANGED << envVars, matchVars, renders, cache, loadCount, iterdir_calls,
                    loadLocals, SCHOOL_INFO, ENV_DICT, GROWTH_DICT, first_result, fatal,
                    cond_list, raised >>

\* lines 94-120: count = len(GROWTH_DICT.get(k, []))
Tab1 ==
    /\ pc = "tab1"
    /\ cond_list' = [i \in 1..Len(Schools) |->
                        [school |-> Schools[i],
                         ec_target |-> SCHOOL_INFO[Schools[i]].ec_target,
                         count |-> IF Schools[i] \in Keys(GROWTH_DICT)
                                   THEN GROWTH_DICT[Schools[i]].rows ELSE 0]]
    /\ pc' = "tab2"
    /\ UNCHANGED << envVars, matchVars, renders, cache, loadCount, iterdir_calls,
                    loadLocals, SCHOOL_INFO, ENV_DICT, GROWTH_DICT, first_result, fatal,
                    selected_school, raised >>

\* line 160
view_school == IF selected_school # All THEN selected_school ELSE "Songdo"

\* lines 123-161: ENV_DICT[selected_school] (line 153) and ENV_DICT[view_school]
\* (line 161) are plain subscripts: an absent key raises KeyError
Tab2 ==
    /\ pc = "tab2"
    /\ IF \/ selected_school # All /\ selected_school \notin Keys(ENV_DICT)
          \/ view_school \notin Keys(ENV_DICT)
       THEN /\ raised' = "KeyError"
            /\ pc' = "crashed"
       ELSE /\ raised' = raised
            /\ pc' = "tab3"
    /\ UNCHANGED << envVars, matchVars, renders, cache, loadCount, iterdir_calls,
                    loadLocals, pageVars >>

\* lines 164-220: iterates GROWTH_DICT.items(), no subscript by site
Tab3 ==
    /\ pc = "tab3"
    /\ pc' = "done"
    /\ UNCHANGED << envVars, matchVars, renders, cache, loadCount, iterdir_calls,
                    loadLocals, pageVars, raised >>

(***************************************************************************)
(* Specification of the session.                                           *)
(***************************************************************************)
InitProgram ==
    /\ pc = "start"
    /\ renders = 0
    /\ cache = NoCache
    /\ loadCount = 0
    /\ iterdir_calls = 0
    /\ env_data = EmptyDict
    /\ growth_data = EmptyDict
    /\ fi = 0 /\ si = 0 /\ shi = 0
    /\ df = NoTable
    /\ warnings = {}
    /\ SCHOOL_INFO = << >>
    /\ ENV_DICT = EmptyDict
    /\ GROWTH_DICT = EmptyDict
    /\ first_result = NoResult
    /\ fatal = FALSE
    /\ selected_school = All
    /\ cond_list = << >>
    /\ raised = "none"

\* the data directory: any listing, with the default workbook; or a simple
\* listing with any workbook
InitInputs ==
    \/ /\ dirExists = TRUE
       /\ dir \in InjSeqs(FileUniverse, MaxFiles)
       /\ sheets = IF HasWorkbook(dir) THEN DefaultSheets ELSE << >>
    \/ /\ dirExists = TRUE
       /\ dir \in SimpleDirs
       /\ sheets \in InjSeqs(SheetUniverse, MaxSheets)
    \/ /\ dirExists = FALSE
       /\ dir = << >>
       /\ sheets = << >>

Init ==
    /\ InitInputs
    /\ InitProgram
    /\ mKeyword = NoOperand /\ mCandidate = NoOperand /\ mResult = FALSE

Next ==
    \/ RunScript
    \/ CallLoad
    \/ ExistsCheck
    \/ CsvIterdir
    \/ CsvMatch
    \/ CsvRead
    \/ CsvStrip
    \/ CsvTime
    \/ CsvStore
    \/ XlsxList
    \/ XlsOpen
    \/ SheetMatch
    \/ SheetRead
    \/ SheetStrip
    \/ SheetStore
    \/ Return
    \/ EmptyCheck
    \/ Sidebar
    \/ Tab1
    \/ Tab2
    \/ Tab3

Spec == Init /\ [][Next]_vars


(***************************************************************************)
(* The match test of lines 44-46 and 62-64 as a function of its two        *)
(* operands: a keyword and a candidate name, each in composed or           *)
(* decomposed form, the candidate with ASCII text around the site name.    *)
(***************************************************************************)
Forms == {"NFC", "NFD"}
InForm(form, text) == IF form = "NFC" THEN NFC(text) ELSE NFD(text)
\* ASCII text (underscores) before and after the site name
Affixes == UNION { [1..n -> {95}] : n \in 0..MaxAffix }

Keywords ==
    { [school |-> k, form |-> f, text |-> InForm(f, SchoolText(k))] :
        k \in SchoolKeys, f \in Forms }
Candidates ==
    { [school |-> k, form |-> f,
       text |-> InForm(f, c[1] \o SchoolText(k) \o c[2] \o c[3])] :
        k \in SchoolKeys, f \in Forms,
        c \in Affixes \X Affixes \X {ExtCsv, << >>} }

InitMatch ==
    /\ dirExists = FALSE /\ dir = << >> /\ sheets = << >>
    /\ InitProgram
    /\ mKeyword \in Keywords
    /\ mCandidate \in Candidates
    /\ mResult = FALSE

\* `school in norm_name` with norm_name = normalize_text(name)
MatchTest ==
    /\ pc = "start"
    /\ mResult' = KeywordIn(mKeyword.text, mCandidate.text)
    /\ pc' = "matched"
    /\ UNCHANGED << envVars, mKeyword, mCandidate, renders, cache, loadCount,
                    iterdir_calls, loadLocals, pageVars, raised >>

NextMatch == MatchTest

SpecMatch == InitMatch /\ [][NextMatch]_vars


(***************************************************************************)
(* Properties.                                                             *)
(***************************************************************************)
\* load_all_data has returned to line 75 in the current script run
AfterLoad ==
    \/ pc \in {"check", "halted", "sidebar", "tab1", "tab2", "tab3", "done"}
    \/ pc = "crashed" /\ raised = "KeyError"
\* the empty-data check of lines 78-80 has been made in the current script run
AfterCheck == AfterLoad /\ pc # "check"

Min(S) == CHOOSE x \in S : \A y \in S : x <= y
Max(S) == CHOOSE x \in S : \A y \in S : x >= y
Abs(x) == IF x < 0 THEN -x ELSE x

\* the normalised site identifiers, and the normalised name and the kind of
\* every possible directory entry and sheet (tables computed once)
SchoolNorm == [k \in SchoolKeys |-> NFC(SchoolText(k))]
FileNorm == [f \in FileUniverse |-> NFC(f.name)]
FileIsCsv == [f \in FileUniverse |-> Suffix(f.name) = ExtCsv]
FileIsWorkbook == [f \in FileUniverse |-> Suffix(f.name) \in {ExtXlsx, ExtXls}]
SheetNorm == [sh \in SheetUniverse |-> NFC(sh.name)]
\* directory entries that are a .csv file of site k, and those that parse
CsvOf(k) ==
    {i \in 1..Len(dir) : FileIsCsv[dir[i]] /\ Contains(SchoolNorm[k], FileNorm[dir[i]])}
GoodCsvOf(k) == {i \in CsvOf(k) : dir[i].bad = "none"}
\* sheets of site k, by equality and by containment of the normalised name
ExactSheetsOf(k) == {i \in 1..Len(sheets) : SheetNorm[sheets[i]] = SchoolNorm[k]}
ContainSheetsOf(k) ==
    {i \in 1..Len(sheets) : Contains(SchoolNorm[k], SheetNorm[sheets[i]])}
\* the directory holds a workbook file; the first one can be opened
WorkbookExists == \E i \in 1..Len(dir) : FileIsWorkbook[dir[i]]
WorkbookOpens ==
    /\ WorkbookExists
    /\ dir[Min({i \in 1..Len(dir) : FileIsWorkbook[dir[i]]})].bad = "none"
SheetsParse == \A i \in 1..Len(sheets) : sheets[i].bad = "none"

\* C1: the environmental collection holds exactly the sites that have a
\* matching .csv file, and no page operation ends in an unhandled KeyError
\* for a site that is absent from it, whatever the sidebar selection.
C1_AbsenceTolerance ==
    AfterLoad =>
        /\ raised # "KeyError"
        /\ warnings = {} =>
              Keys(ENV_DICT) = {k \in SchoolKeys : CsvOf(k) # {}}

EnvTableComplete(t) ==
    t # NoTable => /\ t.stripped /\ t.time_parsed
                   /\ t.src \in 1..Len(dir) /\ dir[t.src].bad = "none"
GrowthTableComplete(t) ==
    t # NoTable => /\ t.stripped
                   /\ t.src \in 1..Len(sheets) /\ sheets[t.src].bad = "none"
C3_AbsenceOverPartial ==
    \A k \in SchoolKeys :
        /\ EnvTableComplete(env_data[k]) /\ EnvTableComplete(ENV_DICT[k])
        /\ GrowthTableComplete(growth_data[k]) /\ GrowthTableComplete(GROWTH_DICT[k])
        /\ cache.filled =>
              EnvTableComplete(cache.env[k]) /\ GrowthTableComplete(cache.growth[k])

\* a file failed after pd.read_csv had produced its table, while another
\* site's table is held
C3_Witness ==
    /\ \E w \in warnings : w[1] = "csv" /\ dir[w[2]].bad \in {"strip", "time"}
    /\ Keys(env_data) # {}
    /\ pc \in {"csv_match", "xlsx_list"}

\* C4: when the input of one site fails to parse, every other site whose
\* input is present and parses is in its collection once load_all_data has
\* returned, in every enumeration order of files and sheets.
C4_SiblingsContinue ==
    AfterLoad =>
        \A k \in SchoolKeys :
            /\ k \notin Keys(ENV_DICT) =>
                  ~(GoodCsvOf(k) # {} /\ GoodCsvOf(k) = CsvOf(k))
            /\ (k \notin Keys(GROWTH_DICT) /\ WorkbookOpens) =>
                  ~( /\ ContainSheetsOf(k) # {}
                     /\ \A i \in ContainSheetsOf(k) : sheets[i].bad = "none" )

\* C5 as stated: the table of a site comes from the first .csv file of the
\* enumeration that matches the site.
C5_FirstMatchWins_Original ==
    AfterLoad =>
        \A k \in Keys(ENV_DICT) : ENV_DICT[k].src = Min(CsvOf(k))

\* C5 amended: the table of a site comes from the last .csv file of the
\* enumeration that matches the site and parses, in every enumeration order.
C5_LastParsedMatchWins ==
    AfterLoad =>
        \A k \in SchoolKeys :
            LET good == GoodCsvOf(k)
            IN IF good = {} THEN k \notin Keys(ENV_DICT)
               ELSE LET last == Max(good)
                    IN /\ k \in Keys(ENV_DICT)
                       /\ ENV_DICT[k].src = last
                       /\ ENV_DICT[k].data.ec = dir[last].ec

C5_Witness ==
    /\ AfterLoad
    /\ \E k \in Keys(ENV_DICT) :
          /\ Cardinality(GoodCsvOf(k)) >= 2
          /\ ENV_DICT[k].src # Min(CsvOf(k))

\* C6 as stated: the growth entry of a site comes only from a sheet whose
\* normalised name equals the normalised site identifier.
C6_ExactSheetOnly_Original ==
    AfterLoad =>
        \A k \in Keys(GROWTH_DICT) : GROWTH_DICT[k].src \in ExactSheetsOf(k)

\* C6 amended: the growth entry of a site comes only from a sheet whose
\* normalised name contains the normalised site identifier; a sheet that holds
\* extra text around the identifier populates the entry too, and when the
\* workbook parses the last such sheet is the one kept.
C6_ContainingSheet ==
    AfterLoad =>
        LET parses == WorkbookOpens /\ SheetsParse
        IN \A k \in SchoolKeys :
            LET mine == ContainSheetsOf(k)
            IN /\ k \in Keys(GROWTH_DICT) => GROWTH_DICT[k].src \in mine
               /\ (parses /\ mine # {}) =>
                     /\ k \in Keys(GROWTH_DICT)
                     /\ GROWTH_DICT[k].src = Max(mine)

C6_Witness ==
    /\ AfterLoad
    /\ \E k \in Keys(GROWTH_DICT) :
          /\ GROWTH_DICT[k].src \in ContainSheetsOf(k)
          /\ GROWTH_DICT[k].src \notin ExactSheetsOf(k)

\* C7: every environmental table carries an EC-delta column equal to
\* [0, |v1-v0|, |v2-v1|, ...] for its EC values [v0, v1, v2, ...].
ExpectedDelta(v) == [i \in 1..Len(v) |-> IF i = 1 THEN 0 ELSE Abs(v[i] - v[i - 1])]
C7_EcDelta ==
    AfterLoad =>
        \A k \in Keys(ENV_DICT) :
            /\ "ec_delta" \in DOMAIN ENV_DICT[k].data
            /\ ENV_DICT[k].data.ec_delta = ExpectedDelta(ENV_DICT[k].data.ec)

C9_MissingDirectory ==
    ~dirExists =>
        /\ iterdir_calls = 0
        /\ raised = "none" /\ pc # "crashed"
        /\ pc \notin {"csv_iterdir", "csv_match", "xlsx_list", "xls_open"}
        /\ AfterLoad => /\ SCHOOL_INFO = schools
                        /\ Cardinality(DOMAIN SCHOOL_INFO) = 4
                        /\ Keys(ENV_DICT) = {}
                        /\ Keys(GROWTH_DICT) = {}

C9_Witness ==
    /\ ~dirExists
    /\ pc = "check"
    /\ loadCount = 1
    /\ Keys(ENV_DICT) = {} /\ Keys(GROWTH_DICT) = {}

\* C10: over all script runs of a session the body of load_all_data runs at
\* most once (so the directory is enumerated at most twice, by that one run),
\* and every run observes the collections the first run observed.
C10_MemoizedLoad ==
    /\ loadCount <= 1
    /\ iterdir_calls <= 2
    /\ AfterLoad => /\ first_result.seen
                    /\ ENV_DICT = first_result.env
                    /\ GROWTH_DICT = first_result.growth

C10_Witness ==
    /\ renders >= 2
    /\ pc = "tab2"
    /\ selected_school # All
    /\ loadCount = 1

====
